---- MODULE Spec2Model ----
(***************************************************************************)
(* Model of brazilcep.apicep.fetch_address (src/brazilcep/apicep.py).      *)
(*                                                                         *)
(* One call of fetch_address is: format the URL, issue one requests.get,   *)
(* then either the transport raises (the except chain of lines 48-61       *)
(* decides what the caller sees) or it delivers a response (lines 63-87    *)
(* classify the HTTP status code and, on 200, the JSON payload).           *)
(*                                                                         *)
(* Python values are modelled as follows.                                  *)
(*   - str: a TLA+ string; Len, SubSeq and \o act on its characters.       *)
(*   - a JSON value: a tagged record [t, n, s]; t is "null", "num" or      *)
(*     "str", and "absent" marks a key the object does not have.           *)
(*   - an exception: its class name, qualified by its module.              *)
(* The timeout and proxies arguments are handed to requests.get unchanged  *)
(* and are read nowhere else; what they lead to (a timeout, a proxy error) *)
(* is part of the transport's nondeterministic outcome.                    *)
(***************************************************************************)
EXTENDS Integers, Sequences, FiniteSets, TLC

VARIABLES pc, cep, url, gets, fault, response, outcome

vars == <<pc, cep, url, gets, fault, response, outcome>>

(***************************************************************************)
(* Bounds of the model.                                                    *)
(***************************************************************************)
\* Longest upstream address, counted in pieces of AddressPieces.
MaxPieces == 2

\* The postal codes a caller passes (the code does not validate them).
Ceps == {"37503130", "00000-000"}

\* The pieces upstream addresses are assembled from: a street name, the
\* marker itself, and a proper prefix of the marker.
AddressPieces == {"Rua X", " - até", " - at"}

\* HTTP status codes the transport delivers.
HttpStatusCodes == {200, 400, 404, 429, 500}

(***************************************************************************)
(* JSON values.                                                            *)
(***************************************************************************)
Absent == [t |-> "absent", n |-> 0, s |-> ""]

JNull == [t |-> "null", n |-> 0, s |-> ""]

JNum(i) == [t |-> "num", n |-> i, s |-> ""]

JStr(str) == [t |-> "str", n |-> 0, s |-> str]

\* Python's == between two JSON values (never applied to Absent).
PyEq(a, b) == a.t = b.t /\ a.n = b.n /\ a.s = b.s

\* Python truthiness: None, 0 and "" are falsy.
Truthy(v) ==
    \/ v.t = "num" /\ v.n # 0
    \/ v.t = "str" /\ v.s # ""

\* dict.get(key): None for a key the object does not have.
Get(obj, key) == IF obj[key] = Absent THEN JNull ELSE obj[key]

(***************************************************************************)
(* Strings.                                                                *)
(***************************************************************************)
\* The endpoint template, split at its one replacement field "{}".
URL == <<"https://ws.apicep.com/cep/", ".json">>

\* A slip in the template: the ".json" extension is lost.
FormatURLNoExtension(c) == URL[1] \o c

\* URL.format(cep): the field is replaced by the argument.
FormatURL(c) == URL[1] \o c \o URL[2]

\* Whether sep occurs in str at position i.
OccursAt(str, sep, i) ==
    /\ i >= 1
    /\ i + Len(sep) - 1 <= Len(str)
    /\ SubSeq(str, i, i + Len(sep) - 1) = sep

\* str.find(sep) + 1: the position of the first occurrence of sep, 0 if none.
Find(str, sep) ==
    LET hits == {i \in 1..Len(str) : OccursAt(str, sep, i)}
    IN  IF hits = {} THEN 0 ELSE CHOOSE i \in hits : \A j \in hits : i <= j

\* A slip for split: str.rsplit(sep, 1)[0], which cuts at the last occurrence.
SplitAtLast(str, sep) ==
    LET hits == {i \in 1..Len(str) : OccursAt(str, sep, i)}
    IN  IF hits = {} THEN str
        ELSE SubSeq(str, 1, (CHOOSE i \in hits : \A j \in hits : i >= j) - 1)

\* str.split(sep)[0]: what precedes the first occurrence of sep, or the whole
\* string when sep does not occur.
SplitHead(str, sep) ==
    LET i == Find(str, sep)
    IN  IF i = 0 THEN str ELSE SubSeq(str, 1, i - 1)

\* str(n) for n >= 0: the decimal numeral of n.
RECURSIVE Decimal(_)
Decimal(n) ==
    LET d == SubSeq("0123456789", (n % 10) + 1, (n % 10) + 1)
    IN  IF n < 10 THEN d ELSE Decimal(n \div 10) \o d

\* A slip in the message: the f prefix is lost and nothing is interpolated.
OtherErrorMessageNotFormatted(status_code) ==
    "Other error. Status code: {response.status_code}"

\* f"Other error. Status code: {response.status_code}"
OtherErrorMessage(status_code) == "Other error. Status code: " \o Decimal(status_code)

(***************************************************************************)
(* The transport's exceptions.  requests.get raises an instance of one of  *)
(* the classes of requests.exceptions; an except clause catches it when    *)
(* its class is the named class or derives from it.  Ancestors gives, for  *)
(* each class, the classes among the five named in the except chain that   *)
(* it is or derives from (ConnectTimeout derives from both ConnectionError *)
(* and Timeout; InvalidURL, ChunkedEncodingError, ContentDecodingError and *)
(* RequestException itself derive from none of the five).                  *)
(***************************************************************************)
TransportExceptions ==
    {"ConnectionError", "ProxyError", "SSLError", "ConnectTimeout",
     "ReadTimeout", "Timeout", "HTTPError", "URLRequired",
     "TooManyRedirects", "InvalidURL", "ChunkedEncodingError",
     "ContentDecodingError", "RequestException"}

Ancestors(e) ==
    CASE e = "ConnectionError"  -> {"ConnectionError"}
      [] e = "ProxyError"       -> {"ConnectionError"}
      [] e = "SSLError"         -> {"ConnectionError"}
      [] e = "ConnectTimeout"   -> {"ConnectionError", "Timeout"}
      [] e = "ReadTimeout"      -> {"Timeout"}
      [] e = "Timeout"          -> {"Timeout"}
      [] e = "HTTPError"        -> {"HTTPError"}
      [] e = "URLRequired"      -> {"URLRequired"}
      [] e = "TooManyRedirects" -> {"TooManyRedirects"}
      [] OTHER                  -> {}

\* isinstance(e, requests.exceptions.<cls>)
IsInstance(e, cls) == cls \in Ancestors(e)

(***************************************************************************)
(* Results of a call.                                                      *)
(***************************************************************************)
NoRecord == [k \in {} |-> JNull]

NoResult == [kind |-> "none", exc |-> "", arg |-> "", parsed |-> FALSE, record |-> NoRecord]

\* An exception of class cls, constructed with argument arg, reaches the
\* caller; parsed tells whether json.loads had been called.
Raise(cls, arg, parsed) ==
    [kind |-> "raise", exc |-> cls, arg |-> arg, parsed |-> parsed, record |-> NoRecord]

Return(rec) ==
    [kind |-> "return", exc |-> "", arg |-> "", parsed |-> TRUE, record |-> rec]

\* The except chain: the first clause whose class the exception is an instance
\* of wraps it; an exception no clause names propagates as it is.
HandleTransportError(e) ==
    IF IsInstance(e, "ConnectionError")
    THEN Raise("exceptions.ConnectionError", e, FALSE)
    ELSE IF IsInstance(e, "HTTPError")
    THEN Raise("exceptions.HTTPError", e, FALSE)
    ELSE IF IsInstance(e, "URLRequired")
    THEN Raise("exceptions.URLRequired", e, FALSE)
    ELSE IF IsInstance(e, "TooManyRedirects")
    THEN Raise("exceptions.TooManyRedirects", e, FALSE)
    ELSE IF IsInstance(e, "Timeout")
    THEN Raise("exceptions.Timeout", e, FALSE)
    ELSE Raise("requests.exceptions." \o e, "", FALSE)

(***************************************************************************)
(* The response: an HTTP status code and a body.  json.loads fails on a    *)
(* body that is empty or not JSON; it yields a list for a JSON array and a *)
(* dict for a JSON object.  obj holds the object's fields; the keys it     *)
(* lacks are Absent.                                                       *)
(***************************************************************************)
PayloadKeys == {"status", "message", "district", "code", "city", "address", "state"}

EmptyObject == [k \in PayloadKeys |-> Absent]

InvalidCEPMessage == "CEP informado é inválido"

BlockedByFloodMessage == "Blocked by flood"

\* A condition of the form
\*     address["status"] == 400 and address["message"] == literal
\* evaluated left to right: a subscript of a key the dict lacks raises
\* KeyError, and `and` does not evaluate its right side when the left is false.
StatusAndMessage(obj, literal) ==
    IF obj["status"] = Absent THEN "KeyError:status"
    ELSE IF ~PyEq(obj["status"], JNum(400)) THEN "False"
    ELSE IF obj["message"] = Absent THEN "KeyError:message"
    ELSE IF PyEq(obj["message"], JStr(literal)) THEN "True"
    ELSE "False"

\* A slip in the third test: the message is consulted as in the first two.
StatusNotFoundWithMessage(obj) ==
    IF obj["status"] = Absent THEN "KeyError:status"
    ELSE IF ~PyEq(obj["status"], JNum(404)) THEN "False"
    ELSE IF obj["message"] = Absent THEN "KeyError:message"
    ELSE IF PyEq(obj["message"], JStr("CEP não encontrado")) THEN "True"
    ELSE "False"

\* address["status"] == 404
StatusNotFound(obj) ==
    IF obj["status"] = Absent THEN "KeyError:status"
    ELSE IF PyEq(obj["status"], JNum(404)) THEN "True"
    ELSE "False"

\* A slip in the default: address.get(key), without `or ""`.
GetWithoutDefault(obj, key) == Get(obj, key)

\* address.get(key) or ""
OrEmpty(obj, key) == IF Truthy(Get(obj, key)) THEN Get(obj, key) ELSE JStr("")

\* The dict of lines 75-82.  Only a str has split: an address that is a
\* non-zero number makes line 79 raise AttributeError.
BuildRecord(obj) ==
    LET a == OrEmpty(obj, "address")
    IN  IF a.t # "str"
        THEN Raise("AttributeError", "split", TRUE)
        ELSE Return([district   |-> OrEmpty(obj, "district"),
                     cep        |-> OrEmpty(obj, "code"),
                     city       |-> OrEmpty(obj, "city"),
                     street     |-> JStr(SplitHead(a.s, " - até")),
                     uf         |-> OrEmpty(obj, "state"),
                     complement |-> JStr("")])

\* Lines 66-82 on the dict json.loads returned.
ClassifyPayload(obj) ==
    LET invalid == StatusAndMessage(obj, InvalidCEPMessage)
        flood   == StatusAndMessage(obj, BlockedByFloodMessage)
        missing == StatusNotFound(obj)
    IN  IF invalid \notin {"True", "False"}
        THEN Raise("KeyError", SubSeq(invalid, 10, Len(invalid)), TRUE)
        ELSE IF invalid = "True"
        THEN Raise("exceptions.InvalidCEP", "", TRUE)
        ELSE IF flood \notin {"True", "False"}
        THEN Raise("KeyError", SubSeq(flood, 10, Len(flood)), TRUE)
        ELSE IF flood = "True"
        THEN Raise("exceptions.BlockedByFlood", "", TRUE)
        ELSE IF missing \notin {"True", "False"}
        THEN Raise("KeyError", SubSeq(missing, 10, Len(missing)), TRUE)
        ELSE IF missing = "True"
        THEN Raise("exceptions.CEPNotFound", "", TRUE)
        ELSE BuildRecord(obj)

\* Lines 64-82: json.loads(response.text), then the payload.  A list cannot
\* be subscripted by "status": TypeError.
ParseAndClassify(body) ==
    IF body.kind \in {"empty", "notjson"}
    THEN Raise("json.JSONDecodeError", "", TRUE)
    ELSE IF body.kind = "array"
    THEN Raise("TypeError", "", TRUE)
    ELSE ClassifyPayload(body.obj)

\* A slip in the order: the body is parsed before the status code is read.
ClassifyParsingFirst(status_code, body) ==
    IF body.kind \in {"empty", "notjson"}
    THEN Raise("json.JSONDecodeError", "", TRUE)
    ELSE IF status_code = 200
    THEN ParseAndClassify(body)
    ELSE IF status_code = 429
    THEN Raise("exceptions.BlockedByFlood", "", TRUE)
    ELSE Raise("exceptions.BrazilCEPException", OtherErrorMessage(status_code), TRUE)

\* Lines 63-87.
Classify(status_code, body) ==
    IF status_code = 200
    THEN ParseAndClassify(body)
    ELSE IF status_code = 429
    THEN Raise("exceptions.BlockedByFlood", "", FALSE)
    ELSE Raise("exceptions.BrazilCEPException", OtherErrorMessage(status_code), FALSE)

(***************************************************************************)
(* The inputs the environment chooses from.                                *)
(***************************************************************************)
RECURSIVE Concatenations(_)
\* The strings made of at most n pieces of AddressPieces.
Concatenations(n) ==
    IF n = 0 THEN {""}
    ELSE LET shorter == Concatenations(n - 1)
         IN  shorter \cup {a \o p : a \in shorter, p \in AddressPieces}

StatusValues == {Absent, JNum(200), JNum(400), JNum(404)}

MessageValues ==
    {Absent, JStr(InvalidCEPMessage), JStr(BlockedByFloodMessage), JStr("Not found")}

AddressValues ==
    {Absent, JNull, JNum(7)} \cup {JStr(a) : a \in Concatenations(MaxPieces)}

FieldValues(text) == {Absent, JNull, JStr(text)}

Objects ==
    [status   : StatusValues,
     message  : MessageValues,
     district : FieldValues("Centro"),
     code     : FieldValues("37503-130"),
     city     : FieldValues("Itajubá"),
     address  : AddressValues,
     state    : FieldValues("MG")]

Bodies ==
    {[kind |-> k, obj |-> EmptyObject] : k \in {"empty", "notjson", "array"}}
        \cup {[kind |-> "object", obj |-> o] : o \in Objects}

NoResponse == [status_code |-> 0, body |-> [kind |-> "empty", obj |-> EmptyObject]]

(***************************************************************************)
(* The state machine of one call after another.                            *)
(***************************************************************************)
Init ==
    /\ pc = "idle"
    /\ cep = ""
    /\ url = ""
    /\ gets = 0
    /\ fault = ""
    /\ response = NoResponse
    /\ outcome = NoResult

\* The caller calls fetch_address(c, timeout, proxies); line 46 formats the
\* URL and issues the GET.
Invoke ==
    /\ pc = "idle"
    /\ \E c \in Ceps :
           /\ cep' = c
           /\ url' = FormatURL(c)
    /\ gets' = gets + 1
    /\ pc' = "waiting"
    /\ UNCHANGED <<fault, response, outcome>>

\* requests.get raises e; lines 48-61 decide what the caller sees.
TransportRaises ==
    /\ pc = "waiting"
    /\ \E e \in TransportExceptions :
           /\ fault' = e
           /\ outcome' = HandleTransportError(e)
    /\ pc' = "done"
    /\ UNCHANGED <<cep, url, gets, response>>

\* requests.get returns a response; lines 63-87 classify it.
TransportResponds ==
    /\ pc = "waiting"
    /\ \E status_code \in HttpStatusCodes, body \in Bodies :
           /\ response' = [status_code |-> status_code, body |-> body]
           /\ outcome' = Classify(status_code, body)
    /\ pc' = "done"
    /\ UNCHANGED <<cep, url, gets, fault>>

\* The call is over; nothing of it is kept for the next one.
Finish ==
    /\ pc = "done"
    /\ pc' = "idle"
    /\ cep' = ""
    /\ url' = ""
    /\ gets' = 0
    /\ fault' = ""
    /\ response' = NoResponse
    /\ outcome' = NoResult

Next ==
    \/ Invoke
    \/ TransportRaises
    \/ TransportResponds
    \/ Finish

Spec == Init /\ [][Next]_vars

(***************************************************************************)
(* Vocabulary of the properties.                                           *)
(***************************************************************************)
\* The errors the docstring of fetch_address promises, by origin.
TransportTaxonomy ==
    {"exceptions.ConnectionError", "exceptions.HTTPError", "exceptions.URLRequired",
     "exceptions.TooManyRedirects", "exceptions.Timeout"}

ResponseTaxonomy ==
    {"exceptions.InvalidCEP", "exceptions.BlockedByFlood", "exceptions.CEPNotFound",
     "exceptions.BrazilCEPException"}

RecordKeys == {"district", "cep", "city", "street", "uf", "complement"}

\* The call ended because the transport raised / delivered a response.
Failed == pc = "done" /\ fault # ""

Responded == pc = "done" /\ fault = ""

\* The response is HTTP 200 with a JSON object that has a status field.
PayloadWithStatus ==
    /\ Responded
    /\ response.status_code = 200
    /\ response.body.kind = "object"
    /\ response.body.obj["status"] # Absent

Raised(cls) == outcome.kind = "raise" /\ outcome.exc = cls

IsDigit(ch) == ch \in {"0", "1", "2", "3", "4", "5", "6", "7", "8", "9"}

RECURSIVE ParseDecimal(_)
\* The number a non-empty string of digits denotes; -1 for any other string.
ParseDecimal(str) ==
    LET n    == Len(str)
        last == SubSeq(str, n, n)
        v    == CHOOSE d \in 0..9 : SubSeq("0123456789", d + 1, d + 1) = last
        rest == ParseDecimal(SubSeq(str, 1, n - 1))
    IN  IF n = 0 \/ ~IsDigit(last) THEN -1
        ELSE IF n = 1 THEN v
        ELSE IF rest = -1 THEN -1
        ELSE 10 * rest + v

\* str holds a maximal run of digits, from position i to position j, that
\* denotes n.
ContainsNumber(str, n) ==
    \E i \in 1..Len(str) :
        /\ IsDigit(SubSeq(str, i, i))
        /\ i = 1 \/ ~IsDigit(SubSeq(str, i - 1, i - 1))
        /\ \E j \in i..Len(str) :
               /\ j = Len(str) \/ ~IsDigit(SubSeq(str, j + 1, j + 1))
               /\ ParseDecimal(SubSeq(str, i, j)) = n

(***************************************************************************)
(* Properties.                                                             *)
(***************************************************************************)

\* C1: whatever exception the transport raises during the GET, the caller
\* sees one of the five transport errors of the module's taxonomy, wrapping
\* the transport's exception; no raw transport exception reaches the caller.
C1_TransportErrorsWrapped ==
    Failed =>
        /\ outcome.kind = "raise"
        /\ outcome.exc \in TransportTaxonomy
        /\ outcome.arg = fault

\* C2: whenever the transport reports a timeout, of any kind (a timeout while
\* connecting included), the call raises the taxonomy's Timeout and returns
\* no record.
C2_TimeoutRaisesTimeout ==
    (Failed /\ fault \in {"Timeout", "ReadTimeout", "ConnectTimeout"}) =>
        Raised("exceptions.Timeout")

\* C3: for every response the transport delivers, the call either returns a
\* record or raises InvalidCEP, BlockedByFlood, CEPNotFound or the generic
\* base error; no other error escapes.
C3_ResponseOutcomeClassified ==
    Responded =>
        \/ outcome.kind = "return" /\ DOMAIN outcome.record = RecordKeys
        \/ outcome.kind = "raise" /\ outcome.exc \in ResponseTaxonomy

\* C4: on HTTP 200 with a payload that has a status field, status 400 with
\* the message "CEP informado é inválido" raises InvalidCEP, status 400 with
\* the message "Blocked by flood" raises BlockedByFlood, and status 404
\* raises CEPNotFound whatever the message and the other fields are; none of
\* the three returns a value.
C4_PayloadErrorsClassified ==
    PayloadWithStatus =>
        LET obj == response.body.obj
        IN  /\ (obj["status"] = JNum(400) /\ obj["message"] = JStr("CEP informado é inválido"))
                => Raised("exceptions.InvalidCEP")
            /\ (obj["status"] = JNum(400) /\ obj["message"] = JStr("Blocked by flood"))
                => Raised("exceptions.BlockedByFlood")
            /\ obj["status"] = JNum(404) => Raised("exceptions.CEPNotFound")

\* C4 happens: a payload with status 404 and no message raised CEPNotFound.
C4_Witness ==
    /\ PayloadWithStatus
    /\ response.body.obj["status"] = JNum(404)
    /\ response.body.obj["message"] = Absent
    /\ response.body.obj["address"] = JStr("Rua X")
    /\ Raised("exceptions.CEPNotFound")

\* C5: on HTTP 429 the call raises BlockedByFlood whatever the body is, and
\* the body is not parsed.
C5_TooManyRequestsIsFlood ==
    (Responded /\ response.status_code = 429) =>
        Raised("exceptions.BlockedByFlood") /\ ~outcome.parsed

\* C5 happens: HTTP 429 with a body that is not JSON raised BlockedByFlood.
C5_Witness ==
    /\ Responded
    /\ response.status_code = 429
    /\ response.body.kind = "notjson"
    /\ Raised("exceptions.BlockedByFlood")

\* C6: on every HTTP status code other than 200 and 429 the call raises the
\* generic base error BrazilCEPException with a message that contains that
\* status code, and the body is not parsed.
C6_OtherStatusIsGenericError ==
    (Responded /\ response.status_code \notin {200, 429}) =>
        /\ Raised("exceptions.BrazilCEPException")
        /\ ContainsNumber(outcome.arg, response.status_code)
        /\ ~outcome.parsed

\* C6 happens: HTTP 404 with an error payload raised the generic base error.
C6_Witness ==
    /\ Responded
    /\ response.status_code = 404
    /\ response.body.kind = "object"
    /\ response.body.obj["status"] = JNum(404)
    /\ Raised("exceptions.BrazilCEPException")

\* The upstream field each key of the record other than complement comes from.
UpstreamField(key) ==
    CASE key = "district" -> "district"
      [] key = "cep"      -> "code"
      [] key = "city"     -> "city"
      [] key = "street"   -> "address"
      [] key = "uf"       -> "state"

\* C7: every returned record has exactly the six keys district, cep, city,
\* street, uf and complement; complement is the empty string; no value is
\* null; and a key whose upstream field is missing or null holds the empty
\* string.
C7_RecordShape ==
    outcome.kind = "return" =>
        /\ DOMAIN outcome.record = RecordKeys
        /\ outcome.record["complement"] = JStr("")
        /\ \A key \in RecordKeys \ {"complement"} :
               /\ outcome.record[key] \notin {JNull, Absent}
               /\ response.body.obj[UpstreamField(key)] \in {Absent, JNull}
                      => outcome.record[key] = JStr("")

\* C7 happens: a record was returned for a payload without district, with a
\* null code and with a city.
C7_Witness ==
    /\ outcome.kind = "return"
    /\ response.body.obj["district"] = Absent
    /\ response.body.obj["code"] = JNull
    /\ response.body.obj["address"] = JNull
    /\ response.body.obj["city"] = JStr("Itajubá")
    /\ outcome.record["city"] = JStr("Itajubá")

\* C8: in every returned record street is the upstream address cut at the
\* first " - até": the address is street, then the marker, then a rest, and
\* the marker occurs nowhere earlier; it is the whole address when the marker
\* does not occur, and the empty string when the address is missing or null.
C8_StreetCutAtFirstMarker ==
    outcome.kind = "return" =>
        LET a      == response.body.obj["address"]
            street == outcome.record["street"]
            text   == IF a.t = "str" THEN a.s ELSE ""
            k      == Len(street.s)
            occurs == \E i \in 1..Len(text) : OccursAt(text, " - até", i)
        IN  /\ street.t = "str"
            /\ a \in {Absent, JNull} => street.s = ""
            /\ ~occurs => street.s = text
            /\ occurs =>
                   /\ street.s = SubSeq(text, 1, k)
                   /\ OccursAt(text, " - até", k + 1)
                   /\ \A i \in 1..k : ~OccursAt(text, " - até", i)

\* C8 happens: an address that is the marker twice was cut at the first one,
\* which leaves nothing.
C8_Witness ==
    /\ outcome.kind = "return"
    /\ response.body.obj["address"] = JStr(" - até - até")
    /\ outcome.record["street"] = JStr("")

\* C9: every call issues exactly one GET, to https://ws.apicep.com/cep/<cep>.json,
\* whether it ends in a record, a transport failure or a classified error.
C9_OneRequestPerCall ==
    /\ pc = "idle" => gets = 0
    /\ pc \in {"waiting", "done"} =>
           /\ gets = 1
           /\ url = "https://ws.apicep.com/cep/" \o cep \o ".json"

\* C9 happens: a call that ended in a transport failure issued one GET.
C9_Witness ==
    /\ Failed
    /\ cep = "00000-000"
    /\ gets = 1
    /\ url = "https://ws.apicep.com/cep/00000-000.json"

\* The payload matches one of the three error patterns.
MatchesErrorPattern(obj) ==
    \/ obj["status"] = JNum(400) /\ obj["message"] = JStr("CEP informado é inválido")
    \/ obj["status"] = JNum(400) /\ obj["message"] = JStr("Blocked by flood")
    \/ obj["status"] = JNum(404)

\* C10: on HTTP 200 with a payload that has a status field and matches none
\* of the three error patterns, the call raises nothing and returns the
\* record district <- district, cep <- code, city <- city,
\* street <- address (cut), uf <- state, complement <- "".  The payloads
\* meant are those of the documented shape, whose address is a string (or is
\* null or missing).
C10_OtherPayloadReturnsRecord ==
    (/\ PayloadWithStatus
     /\ ~MatchesErrorPattern(response.body.obj)
     /\ response.body.obj["address"].t # "num") =>
        LET obj == response.body.obj
            text(field) == IF obj[field] \in {Absent, JNull} THEN JStr("") ELSE obj[field]
        IN  /\ outcome.kind = "return"
            /\ DOMAIN outcome.record = RecordKeys
            /\ outcome.record["district"] = text("district")
            /\ outcome.record["cep"] = text("code")
            /\ outcome.record["city"] = text("city")
            /\ outcome.record["uf"] = text("state")
            /\ outcome.record["complement"] = JStr("")
            /\ outcome.record["street"].t = "str"
            /\ \E rest \in 0..Len(text("address").s) :
                   outcome.record["street"].s = SubSeq(text("address").s, 1, rest)

\* With a message field in the payload as well, such a payload does yield a
\* record: the missing message is the only way the property above fails.
PayloadWithMessageReturnsRecord ==
    (/\ PayloadWithStatus
     /\ ~MatchesErrorPattern(response.body.obj)
     /\ response.body.obj["message"] # Absent
     /\ response.body.obj["address"].t # "num") =>
        outcome.kind = "return"

====
